---- MODULE Spec2Model ----
(***************************************************************************)
(* A model of ATT's numeric core: algorithm/tools.py (hemi_merge,          *)
(* removeoutlier, listwise_clean, caldice) and the callers in              *)
(* corefunc/analysebase.py.                                                *)
(*                                                                         *)
(* The functions are pure numpy transforms.  Each is an operator computed  *)
(* the way the code computes it, and each group of functions has a         *)
(* specification whose Init draws the caller's arrays from bounded sets    *)
(* and whose actions are the calls.                                        *)
(*                                                                         *)
(* Floating point values are modelled as extended rationals <<n, d>>:      *)
(*   d > 0, gcd(n, d) = 1   the number n/d                                  *)
(*   <<0, 0>>               NaN                                             *)
(*   <<1, 0>>, <<-1, 0>>    +inf, -inf                                      *)
(* Arithmetic is exact (no rounding); division by zero and NaN propagate   *)
(* as IEEE 754 / numpy do.  Zero is unsigned: every zero divisor in the    *)
(* modelled code is a +0.0 (an assigned 0.0 or a sum of non-negative       *)
(* weights).                                                               *)
(***************************************************************************)
EXTENDS Integers, Sequences, FiniteSets, TLC

VARIABLES
    \* caller of hemi_merge (dataprocess, analysebase.py:58-60)
    hm_left, hm_right, hm_weight, hm_meth, hm_merged,
    \* caller of removeoutlier (dataprocess, analysebase.py:61-70)
    ro_orig, ro_data, ro_meth, ro_thr, ro_removed, ro_residue,
    \* caller of listwise_clean (analysebase.py:118, 308)
    lc_data, lc_clean, lc_done,
    \* caller of caldice / EvaluateMap.dice_evaluate
    dc_data1, dc_data2, dc_label, dc_dice, dc_op,
    \* caller of vox2MNI, get_coordinate and PositionRelationship.roidistance
    cd_atlas, cd_mask, cd_op, cd_meth, cd_vox, cd_size, cd_coord, cd_dist,
    \* caller of PositionRelationship.template_overlap
    ov_self, ov_template, ov_para, ov_result,
    \* caller of caleta2
    et_dtype, et_data1, et_data2, et_mask, et_op, et_eta,
    \* caller of permutation_cross_validation and lin_betafit
    pc_X, pc_y, pc_n_fold, pc_isshuffle, pc_cvmeth, pc_score_type, pc_n_perm,
    pc_calls, pc_tail, pc_beta,
    \* caller of removeoutlier that keeps its input array
    al_heap, al_data, al_orig, al_residue, al_meth, al_written

hmVars == <<hm_left, hm_right, hm_weight, hm_meth, hm_merged>>
roVars == <<ro_orig, ro_data, ro_meth, ro_thr, ro_removed, ro_residue>>
lcVars == <<lc_data, lc_clean, lc_done>>
dcVars == <<dc_data1, dc_data2, dc_label, dc_dice, dc_op>>
cdVars == <<cd_atlas, cd_mask, cd_op, cd_meth, cd_vox, cd_size, cd_coord, cd_dist>>
\* the groups of SpecMerge, SpecOutlier, SpecClean and SpecDice
firstVars == <<hmVars, roVars, lcVars, dcVars>>
ovVars == <<ov_self, ov_template, ov_para, ov_result>>

\* the groups of the other specifications
etVars == <<et_dtype, et_data1, et_data2, et_mask, et_op, et_eta>>

pcVars == <<pc_X, pc_y, pc_n_fold, pc_isshuffle, pc_cvmeth, pc_score_type,
           pc_n_perm, pc_calls, pc_tail, pc_beta>>

alVars == <<al_heap, al_data, al_orig, al_residue, al_meth, al_written>>

laterVars == <<cdVars, ovVars, etVars, pcVars, alVars>>
vars == <<firstVars, laterVars>>

-----------------------------------------------------------------------------
(* Bounds of the model. *)

\* subjects per hemi_merge call
MaxSubj == 2

\* entries of a vector handed to removeoutlier
MaxLen == 3

\* rows of a matrix handed to listwise_clean
MaxRows == 3

\* voxels of a labelled volume
MaxVox == 3

\* largest ROI label of a volume
MaxLabel == 2

\* voxels of a 3-D ROI mask that carry a label
MaxRoiVox == 2

-----------------------------------------------------------------------------
(* numpy float64 values and the operations the code applies to them. *)

Abs(x) == IF x < 0 THEN -x ELSE x

Sign(x) == IF x < 0 THEN -1 ELSE IF x > 0 THEN 1 ELSE 0

RECURSIVE Gcd(_, _)
Gcd(a, b) == IF b = 0 THEN a ELSE Gcd(b, a % b)

\* the float n/d for d # 0, in lowest terms with a positive denominator
Rat(n, d) ==
    LET g == Gcd(Abs(n), Abs(d))
        s == Sign(d)
    IN  <<(s * n) \div g, (s * d) \div g>>

F(n) == <<n, 1>>

NaN == <<0, 0>>

PosInf == <<1, 0>>

NegInf == <<-1, 0>>

isnan(x) == x = NaN

IsInf(x) == x[2] = 0 /\ x[1] # 0

IsFinite(x) == x[2] > 0

\* x + y
FAdd(x, y) ==
    IF isnan(x) \/ isnan(y) THEN NaN
    ELSE IF IsInf(x) /\ IsInf(y) THEN (IF x = y THEN x ELSE NaN)
    ELSE IF IsInf(x) THEN x
    ELSE IF IsInf(y) THEN y
    ELSE Rat(x[1] * y[2] + y[1] * x[2], x[2] * y[2])

\* -x
FNeg(x) == <<-x[1], x[2]>>

\* x - y
FSub(x, y) == FAdd(x, FNeg(y))

\* x * y
FMul(x, y) ==
    IF isnan(x) \/ isnan(y) THEN NaN
    ELSE IF IsInf(x) \/ IsInf(y)
         THEN (IF x[1] = 0 \/ y[1] = 0 THEN NaN
               ELSE <<Sign(x[1]) * Sign(y[1]), 0>>)
    ELSE Rat(x[1] * y[1], x[2] * y[2])

\* x / y: finite/0 is a signed infinity, 0/0 and inf/inf are NaN
FDiv(x, y) ==
    IF isnan(x) \/ isnan(y) THEN NaN
    ELSE IF IsInf(x)
         THEN (IF IsInf(y) THEN NaN
               ELSE <<(IF y[1] < 0 THEN -1 ELSE 1) * x[1], 0>>)
    ELSE IF IsInf(y) THEN F(0)
    ELSE IF y[1] = 0
         THEN (IF x[1] = 0 THEN NaN ELSE <<Sign(x[1]), 0>>)
    ELSE Rat(x[1] * y[2], x[2] * y[1])

\* x < y: every comparison with NaN is False
FLt(x, y) ==
    IF isnan(x) \/ isnan(y) THEN FALSE
    ELSE IF IsInf(x) \/ IsInf(y)
         THEN (IF IsInf(x) /\ IsInf(y) THEN x[1] < y[1]
               ELSE IF IsInf(x) THEN x[1] < 0
               ELSE y[1] > 0)
    ELSE x[1] * y[2] < y[1] * x[2]

\* x == y: NaN equals nothing, itself included
FEq(x, y) == ~isnan(x) /\ ~isnan(y) /\ x = y

FGt(x, y) == FLt(y, x)

FGe(x, y) == FLt(y, x) \/ FEq(x, y)

-----------------------------------------------------------------------------
(* hemi_merge, tools.py:154-191 *)

\* "weight is None": an absent weight argument
None == << >>

\* tools.py:176-179, the default weights: 1, and 0 where the side is NaN
DefaultWeight(leftregion_used, rightregion_used) ==
    [s \in 1..Len(leftregion_used) |->
        << IF isnan(leftregion_used[s]) THEN F(0) ELSE F(1),
           IF isnan(rightregion_used[s]) THEN F(0) ELSE F(1) >>]

\* tools.py:181-182, x[np.isnan(x)] = 0.0
NanToZero(x) == IF isnan(x) THEN F(0) ELSE x

\* tools.py:183 with one weight column used for both sides (an index slip)
MergeSingleSameColumn(l, r, w) ==
    FDiv(FAdd(FMul(NanToZero(l), w[1]), FMul(NanToZero(r), w[1])),
         FAdd(w[1], w[2]))

\* tools.py:183, one subject of meth == 'single'
MergeSingle(l, r, w) ==
    FDiv(FAdd(FMul(NanToZero(l), w[1]), FMul(NanToZero(r), w[2])),
         FAdd(w[1], w[2]))

\* tools.py:185-186, total_weight[total_weight<2] = 0.0
TotalWeightBoth(w) ==
    LET total_weight == FAdd(w[1], w[2])
    IN  IF FLt(total_weight, F(2)) THEN F(0) ELSE total_weight

\* tools.py:187, one subject of meth == 'both'
MergeBoth(l, r, w) ==
    FDiv(FAdd(FMul(l, w[1]), FMul(r, w[2])), TotalWeightBoth(w))

\* tools.py:190, merge_region[merge_region == 0] = np.nan
ZeroToNan(x) == IF FEq(x, F(0)) THEN NaN ELSE x

\* hemi_merge: raised is TRUE when the call raises an Exception, and
\* merge_region is the returned vector otherwise
hemi_merge(left_region, right_region, meth, weight) ==
    IF Len(left_region) # Len(right_region)
    THEN [raised |-> TRUE, merge_region |-> << >>]
    ELSE
    LET nsubj == Len(left_region)
        w == IF weight = None
             THEN DefaultWeight(left_region, right_region)
             ELSE weight
    IN  IF meth = "single"
        THEN [raised |-> FALSE,
              merge_region |-> [s \in 1..nsubj |->
                ZeroToNan(MergeSingle(left_region[s], right_region[s], w[s]))]]
        ELSE IF meth = "both"
        THEN [raised |-> FALSE,
              merge_region |-> [s \in 1..nsubj |->
                ZeroToNan(MergeBoth(left_region[s], right_region[s], w[s]))]]
        ELSE [raised |-> TRUE, merge_region |-> << >>]

-----------------------------------------------------------------------------
(* removeoutlier, tools.py:193-227.  data is a float vector; thr is the    *)
(* pair <<thr[0], thr[1]>>.                                                *)

\* the entries of a vector that are numbers (what np.nan* reducers read)
NumIdx(data) == {i \in 1..Len(data) : ~isnan(data[i])}

\* the k-th smallest entry (k from 0) of a vector without NaN: sorted(data)[k]
Sorted(data, k) ==
    CHOOSE x \in {data[i] : i \in 1..Len(data)} :
        /\ Cardinality({i \in 1..Len(data) : FLt(data[i], x)}) <= k
        /\ k < Cardinality({i \in 1..Len(data) : ~FLt(x, data[i])})

\* np.percentile(data, q): linear interpolation between the order
\* statistics around position (n-1)*q/100; NaN when data holds a NaN
percentile(data, q) ==
    IF NumIdx(data) # 1..Len(data) THEN NaN
    ELSE
    LET n == Len(data)
        below == ((n - 1) * q) \div 100
        frac == Rat(((n - 1) * q) % 100, 100)
    IN  IF frac = F(0) THEN Sorted(data, below)
        ELSE FAdd(Sorted(data, below),
                  FMul(frac, FSub(Sorted(data, below + 1), Sorted(data, below))))

RECURSIVE SumOver(_, _)
SumOver(data, idx) ==
    IF idx = {} THEN F(0)
    ELSE LET i == CHOOSE j \in idx : TRUE
         IN  FAdd(data[i], SumOver(data, idx \ {i}))

\* np.nanmean(data): NaN when every entry is NaN
nanmean(data) ==
    IF NumIdx(data) = {} THEN NaN
    ELSE FDiv(SumOver(data, NumIdx(data)), F(Cardinality(NumIdx(data))))

\* np.nanstd(data) squared: the population variance of the numbers of data
nanvar(data) ==
    IF NumIdx(data) = {} THEN NaN
    ELSE LET m == nanmean(data)
             sq == [i \in 1..Len(data) |->
                      FMul(FSub(data[i], m), FSub(data[i], m))]
         IN  FDiv(SumOver(sq, NumIdx(data)), F(Cardinality(NumIdx(data))))

\* v < f_mean + t*f_std with f_std = sqrt(f_var), decided without the root
LtMeanPlusStd(v, f_mean, t, f_var) ==
    LET x == FSub(v, f_mean)
        xx == FMul(x, x)
        ttv == FMul(FMul(t, t), f_var)
    IN  IF isnan(x) \/ isnan(ttv) THEN FALSE
        ELSE IF ~FLt(t, F(0))
             THEN (IF FLt(x, F(0)) THEN TRUE ELSE FLt(xx, ttv))
        ELSE (IF FLt(x, F(0)) THEN FGt(xx, ttv) ELSE FALSE)

\* v > f_mean + t*f_std
GtMeanPlusStd(v, f_mean, t, f_var) ==
    LtMeanPlusStd(FNeg(v), FNeg(f_mean), FNeg(t), f_var)

\* tools.py:212, (data<thr[0])|(data>thr[1])
AbsOutlier(v, thr) == FLt(v, thr[1]) \/ FGt(v, thr[2])

\* tools.py:213 read with a closed upper bound (>= for >)
AbsResidueMaskClosed(v, thr) == FLt(v, thr[1]) \/ FGe(v, thr[2])

\* tools.py:213, the mask (residue_data<thr[0])|(residue_data>thr[1])
AbsResidueMask(v, thr) == FLt(v, thr[1]) \/ FGt(v, thr[2])

\* tools.py:216 with its operands exchanged
IqrSwapped(perc_thr) == FSub(perc_thr[1], perc_thr[2])

\* tools.py:216, f_iqr = perc_thr[1] - perc_thr[0]
Iqr(perc_thr) == FSub(perc_thr[2], perc_thr[1])

\* tools.py:217 with an open upper bound (> for >=)
IqrOutlierOpen(v, perc_thr, f_iqr, thr) ==
    \/ FLt(v, FAdd(perc_thr[1], FMul(thr[1], f_iqr)))
    \/ FGt(v, FAdd(perc_thr[2], FMul(thr[2], f_iqr)))

\* tools.py:217, (data < Q1 + thr[0]*f_iqr)|(data >= Q3 + thr[1]*f_iqr)
IqrOutlier(v, perc_thr, f_iqr, thr) ==
    \/ FLt(v, FAdd(perc_thr[1], FMul(thr[1], f_iqr)))
    \/ FGe(v, FAdd(perc_thr[2], FMul(thr[2], f_iqr)))

\* tools.py:222-223, (data<(f_mean+thr[0]*f_std))|(data>(f_mean+thr[1]*f_std))
StdOutlier(v, f_mean, f_var, thr) ==
    \/ LtMeanPlusStd(v, f_mean, thr[1], f_var)
    \/ GtMeanPlusStd(v, f_mean, thr[2], f_var)

\* residue_data[mask] = np.nan
SetNan(residue_data, mask) ==
    [i \in 1..Len(residue_data) |-> IF mask[i] THEN NaN ELSE residue_data[i]]

\* tools.py:226, n_removed = sum(i for i in outlier_bool if i)
CountTrue(outlier_bool) ==
    Cardinality({i \in 1..Len(outlier_bool) : outlier_bool[i]})

\* removeoutlier: raised is TRUE when the call raises an Exception
removeoutlier(data, meth, thr) ==
    LET I == 1..Len(data) IN
    IF meth = "none"
    THEN [raised |-> FALSE, n_removed |-> 0, residue_data |-> data]
    ELSE IF meth = "abs"
    THEN [raised |-> FALSE,
          n_removed |-> CountTrue([i \in I |-> AbsOutlier(data[i], thr)]),
          residue_data |->
              SetNan(data, [i \in I |-> AbsResidueMask(data[i], thr)])]
    ELSE IF meth = "iqr"
    THEN LET perc_thr == <<percentile(data, 25), percentile(data, 75)>>
             f_iqr == Iqr(perc_thr)
             outlier_bool ==
                 [i \in I |-> IqrOutlier(data[i], perc_thr, f_iqr, thr)]
         IN  [raised |-> FALSE,
              n_removed |-> CountTrue(outlier_bool),
              residue_data |-> SetNan(data, outlier_bool)]
    ELSE IF meth = "std"
    THEN LET f_var == nanvar(data)
             f_mean == nanmean(data)
             outlier_bool ==
                 [i \in I |-> StdOutlier(data[i], f_mean, f_var, thr)]
         IN  [raised |-> FALSE,
              n_removed |-> CountTrue(outlier_bool),
              residue_data |-> SetNan(data, outlier_bool)]
    ELSE [raised |-> TRUE, n_removed |-> 0, residue_data |-> << >>]

-----------------------------------------------------------------------------
(* listwise_clean, tools.py:229-240: pd.DataFrame(data).dropna().values.   *)
(* A matrix is the sequence of its rows.                                   *)

\* DataFrame.count(axis=1) of one row: its entries that are not NaN
RowCount(row) == Cardinality({c \in 1..Len(row) : ~isnan(row[c])})

\* dropna(how='all'): a row is kept when any entry is a number
RowKeptIfAny(row) == RowCount(row) > 0

\* dropna(), how='any': a row is kept when its count is the column count
RowKept(row) == RowCount(row) = Len(row)

\* the rows of data at the positions of mask, in order (DataFrame.take)
RECURSIVE TakeRows(_, _)
TakeRows(data, mask) ==
    IF data = << >> THEN << >>
    ELSE IF Head(mask) THEN <<Head(data)>> \o TakeRows(Tail(data), Tail(mask))
    ELSE TakeRows(Tail(data), Tail(mask))

listwise_clean(data) ==
    TakeRows(data, [r \in 1..Len(data) |-> RowKept(data[r])])

-----------------------------------------------------------------------------
(* caldice, tools.py:45-68, and EvaluateMap.dice_evaluate,                 *)
(* analysebase.py:321-356.  A labelled volume is the sequence of its       *)
(* voxels' labels (the flattened array); data1 and data2 have one shape.   *)

\* np.sum(data == value): the number of voxels holding value
CountEq(data, value) == Cardinality({v \in 1..Len(data) : data[v] = value})

\* np.sum(data_mul): voxels holding value in both volumes
CountBoth(data1, data2, value) ==
    Cardinality({v \in 1..Len(data1) : data1[v] = value /\ data2[v] = value})

\* tools.py:62-67 for one value: NaN when no voxel of either volume holds it
DiceOf(data1, data2, value) ==
    IF ~\E v \in 1..Len(data1) : data1[v] = value \/ data2[v] = value
    THEN NaN
    ELSE Rat(2 * CountBoth(data1, data2, value),
             CountEq(data1, value) + CountEq(data2, value))

\* caldice: "for i in range(label.shape[0])" compares with i+1; the model's
\* positions are 1-based, so position i compares with i
caldice(data1, data2, label) ==
    [i \in 1..Len(label) |-> DiceOf(data1, data2, i)]

\* np.unique(data)[1:]: the distinct values without the smallest
UniqueTail(data) ==
    LET u == {data[v] : v \in 1..Len(data)}
    IN  {x \in u : \E y \in u : y < x}

\* dice_evaluate on volumes of ndim dimensions whose last axis, when
\* ndim = 4, has length 1.  A 3-D data2 reaches np.expand.dims (line 339),
\* which raises AttributeError.
dice_evaluate(data1, data2, ndim) ==
    LET label == UniqueTail(data1) \cup UniqueTail(data2)
    IN  IF ndim = 3
        THEN [raised |-> TRUE, dice |-> << >>]
        ELSE [raised |-> FALSE,
              dice |-> [j \in 1..Cardinality(label) |-> DiceOf(data1, data2, j)]]

-----------------------------------------------------------------------------
(* vox2MNI, tools.py:13-27; get_coordinate, tools.py:324-359; calcdist,     *)
(* tools.py:110-132; PositionRelationship.roidistance,                     *)
(* analysebase.py:422-444.  A 3-D volume is a function of the voxel index  *)
(* triples <<i, j, k>>, counted from 0 as numpy does.                      *)

\* the atlas-space origin of the affine
Origin0 == 45

Origin1 == 63

Origin2 == 36

\* vox2MNI with the first axis not mirrored (vox[0] - 45)
vox2MNIUnmirrored(vox, size) ==
    << FMul(FSub(vox[1], F(Origin0)), size[1]),
       FMul(FSub(vox[2], F(Origin1)), size[2]),
       FMul(FSub(vox[3], F(Origin2)), size[3]) >>

\* vox2MNI: vox and size are triples of floats
vox2MNI(vox, size) ==
    << FMul(FSub(F(Origin0), vox[1]), size[1]),
       FMul(FSub(vox[2], F(Origin1)), size[2]),
       FMul(FSub(vox[3], F(Origin2)), size[3]) >>

\* the shape of the volumes
Shape == <<2, 2, 2>>

Voxels == {<<i, j, k>> : i \in 0..(Shape[1] - 1), j \in 0..(Shape[2] - 1),
                         k \in 0..(Shape[3] - 1)}

\* the position of a voxel in the flattened (C order) array
FlatIndex(v) == (v[1] * Shape[2] + v[2]) * Shape[3] + v[3]

\* np.unique(mask)[1:]: the distinct labels without the smallest
MaskLabels(mask) ==
    LET u == {mask[v] : v \in Voxels}
    IN  {x \in u : \E y \in u : y < x}

\* tools.py:353, roisignal = atlas*(mask == (i+1))
RoiSignal(atlas, mask, label) ==
    [v \in Voxels |-> IF mask[v] = label THEN atlas[v] ELSE F(0)]

\* np.any(roisignal)
AnySignal(roisignal) == \E v \in Voxels : roisignal[v] # F(0)

\* tools.py:343, np.unravel_index(x.argmax(), x.shape): the first voxel, in
\* C order, holding the maximum of the whole array
extractpeak(x) ==
    LET v == CHOOSE w \in Voxels :
                 \A u \in Voxels :
                     \/ FLt(x[u], x[w])
                     \/ (x[u] = x[w] /\ FlatIndex(w) <= FlatIndex(u))
    IN  <<F(v[1]), F(v[2]), F(v[3])>>

RECURSIVE IndexSum(_)
IndexSum(voxels) ==
    IF voxels = {} THEN 0
    ELSE LET v == CHOOSE w \in voxels : TRUE
         IN  v[1] + v[2] + v[3] + IndexSum(voxels \ {v})

\* tools.py:344, np.mean(np.transpose(np.nonzero(x))): np.mean without an
\* axis is the mean of every entry of the (n, 3) index array, one number;
\* "coordinate[i,:] = " broadcasts it to the three axes
extractcenter(x) ==
    LET nz == {v \in Voxels : x[v] # F(0)}
        m == Rat(IndexSum(nz), 3 * Cardinality(nz))
    IN  <<m, m, m>>

\* calfunc(roisignal), tools.py:346-349
calfunc(method, roisignal) ==
    IF method = "peak" THEN extractpeak(roisignal) ELSE extractcenter(roisignal)

NanRow == <<NaN, NaN, NaN>>

\* get_coordinate with labelnum given; coordinate[i] is the row of label i
get_coordinate(atlas, mask, size, method, labelnum) ==
    IF method \notin {"peak", "center"}
    THEN [raised |-> TRUE, coordinate |-> << >>]
    ELSE [raised |-> FALSE,
          coordinate |->
              [i \in 1..labelnum |->
                  LET roisignal == RoiSignal(atlas, mask, i)
                  IN  IF AnySignal(roisignal)
                      THEN vox2MNI(calfunc(method, roisignal), size)
                      ELSE NanRow]]

\* tools.py:338-340, labelnum = np.max(labels) when labelnum is None;
\* np.max of no labels raises ValueError
get_coordinate_default(atlas, mask, size, method) ==
    LET labels == MaskLabels(mask)
    IN  IF labels = {}
        THEN [raised |-> TRUE, coordinate |-> << >>]
        ELSE get_coordinate(atlas, mask, size, method,
                            CHOOSE x \in labels : \A y \in labels : y <= x)

\* calcdist(u, v, metric = 'euclidean'), as the square of the distance
\* (the distance itself is its non-negative root); NaN when a row is NaN
calcdist(u, v) ==
    LET d == [a \in 1..3 |-> FSub(u[a], v[a])]
    IN  FAdd(FAdd(FMul(d[1], d[1]), FMul(d[2], d[2])), FMul(d[3], d[3]))

\* the default size of get_coordinate, tools.py:324
DefaultSize == <<F(2), F(2), F(2)>>

\* PositionRelationship(roimask).roidistance(targdata, extloc): __init__
\* sets _roinumber = np.unique(roimask)[1:].size (analysebase.py:370-372)
roidistance(roimask, targdata, extloc) ==
    LET roinumber == Cardinality(MaskLabels(roimask))
        r == get_coordinate(targdata, roimask, DefaultSize, extloc, roinumber)
    IN  IF r.raised
        THEN [raised |-> TRUE, peakcoord |-> << >>, dist_array |-> << >>]
        ELSE [raised |-> FALSE,
              peakcoord |-> r.coordinate,
              dist_array |->
                  [i \in 1..roinumber |-> [j \in 1..roinumber |->
                      calcdist(r.coordinate[i], r.coordinate[j])]]]

-----------------------------------------------------------------------------
(* PositionRelationship.__init__, analysebase.py:363-374, and              *)
(* template_overlap, analysebase.py:376-420.  Volumes are flattened to     *)
(* vectors of labels; an instance is its attribute names and their values. *)

\* PositionRelationship(roimask): __init__ sets these three attributes and
\* no other
PositionRelationshipInit(roimask) ==
    [attrs |-> {"_roimask", "_masklabel", "_roinumber"},
     roimask |-> roimask,
     masklabel |-> UniqueTail(roimask),
     roinumber |-> Cardinality(UniqueTail(roimask))]

\* the k-th smallest (k from 1) label of a set: np.unique sorts
SortedLabel(labels, k) ==
    CHOOSE x \in labels : Cardinality({y \in labels : y < x}) = k - 1

\* tempextlabel[(tempextlabel == vali)*(roiextlabel == valj)].size: the
\* voxels, nonzero in both volumes, labelled vali and valj
OverlapCount(roimask, template, vali, valj) ==
    Cardinality({v \in 1..Len(roimask) :
                    /\ roimask[v] # 0
                    /\ template[v] # 0
                    /\ template[v] = vali
                    /\ roimask[v] = valj})

\* analysebase.py:410-413: the denominator counts the voxels of the ROI
\* mask that hold the template's label vali; ZeroDivisionError gives NaN
OverlapPercent(roimask, template, vali, valj) ==
    IF CountEq(roimask, vali) = 0 THEN NaN
    ELSE Rat(OverlapCount(roimask, template, vali, valj), CountEq(roimask, vali))

\* analysebase.py:417; vali is a label of the template, so the sum is not 0
OverlapDice(roimask, template, vali, valj) ==
    Rat(2 * OverlapCount(roimask, template, vali, valj),
        CountEq(template, vali) + CountEq(roimask, valj))

\* analysebase.py:396-420, the statements after the shape test
OverlapBody(self, template, para) ==
    LET templabel == UniqueTail(template)
        known == para \in {"percent", "amount", "dice"}
    IN  IF ~known /\ templabel # {} /\ self.roinumber > 0
        THEN [raised |-> "Exception", overlaparray |-> << >>, uni_tempextlbl |-> {}]
        ELSE [raised |-> "no",
              overlaparray |->
                  [i \in 1..Cardinality(templabel) |-> [j \in 1..self.roinumber |->
                      LET vali == SortedLabel(templabel, i)
                      IN  IF para = "percent"
                          THEN OverlapPercent(self.roimask, template, vali, j)
                          ELSE IF para = "amount"
                          THEN F(OverlapCount(self.roimask, template, vali, j))
                          ELSE OverlapDice(self.roimask, template, vali, j)]],
              uni_tempextlbl |->
                  {template[v] : v \in {w \in 1..Len(template) :
                                           self.roimask[w] # 0 /\ template[w] # 0}}]

\* template_overlap: line 395 reads self._targdata, and an instance without
\* that attribute raises AttributeError there
template_overlap(self, template, para) ==
    IF "_targdata" \notin self.attrs
    THEN [raised |-> "AttributeError", overlaparray |-> << >>, uni_tempextlbl |-> {}]
    ELSE OverlapBody(self, template, para)

-----------------------------------------------------------------------------
(* caleta2, tools.py:70-108.  Volumes are flattened; an entry of a float64 *)
(* volume is a float, an entry of an integer volume is an integer.  The    *)
(* elements the loop reads are numpy scalars of the volume's dtype: the    *)
(* sum of two of them keeps that dtype, and every other operation of the   *)
(* loop has a Python number or a float64 as the other operand and is done *)
(* in int64 or float64.                                                    *)

\* the number of values of an unsigned 8-bit integer
Uint8Range == 256

\* an entry as a float
AsFloat(dtype, a) == IF dtype = "float64" THEN a ELSE F(a)

\* (flattendata1[i] + flattendata2[i])/2, tools.py:104: the sum wraps in a
\* uint8 volume; "/" of two integers is the floor division of Python 2
HalfSum(dtype, a, b) ==
    IF dtype = "float64" THEN FDiv(FAdd(a, b), F(2))
    ELSE IF dtype = "uint8" THEN F(((a + b) % Uint8Range) \div 2)
    ELSE F((a + b) \div 2)

\* (a - c)**2 + (b - c)**2
SquaresAround(dtype, a, b, c) ==
    LET da == FSub(AsFloat(dtype, a), c)
        db == FSub(AsFloat(dtype, b), c)
    IN  FAdd(FMul(da, da), FMul(db, db))

RECURSIVE FSum(_, _)
\* the sum of f over a set of indices
FSum(f, idx) ==
    IF idx = {} THEN F(0)
    ELSE LET i == CHOOSE j \in idx : TRUE
         IN  FAdd(f[i], FSum(f, idx \ {i}))

\* np.mean(data[mask != 0])
MaskedMean(dtype, data, sel) ==
    FDiv(FSum([i \in sel |-> AsFloat(dtype, data[i])], sel), F(Cardinality(sel)))

\* caleta2 on same-shape volumes of one dtype; with no voxel selected the
\* two sums stay the Python integer 0 and float(0)/0 raises
caleta2(dtype, data1, data2, mask) ==
    LET sel == {i \in 1..Len(mask) : mask[i] # 0}
        M == FMul(Rat(1, 2), FAdd(MaskedMean(dtype, data1, sel),
                                  MaskedMean(dtype, data2, sel)))
        sumwithin == FSum([i \in sel |->
                              SquaresAround(dtype, data1[i], data2[i],
                                            HalfSum(dtype, data1[i], data2[i]))], sel)
        sumtotal == FSum([i \in sel |->
                             SquaresAround(dtype, data1[i], data2[i], M)], sel)
    IN  IF sel = {}
        THEN [raised |-> TRUE, eta |-> NaN]
        ELSE [raised |-> FALSE, eta |-> FSub(F(1), FDiv(sumwithin, sumtotal))]

-----------------------------------------------------------------------------
(* permutation_cross_validation, tools.py:426-456, with the parts of       *)
(* sklearn it calls: preprocessing.scale, cross_validation.KFold,          *)
(* ShuffleSplit and permutation_test_score, a LinearRegression estimator   *)
(* on one regressor, and the scorers 'r2' and 'mean_squared_error'.        *)
(* X and y are vectors of floats over the samples 1..n.                    *)

\* the root of a float that is a square of a float
FSqrt(x) ==
    <<CHOOSE k \in 0..x[1] : k * k = x[1], CHOOSE k \in 0..x[2] : k * k = x[2]>>

\* np.mean over the samples idx
MeanOver(v, idx) == FDiv(FSum(v, idx), F(Cardinality(idx)))

\* the sum over idx of (u - mu)*(v - mv)
CrossSum(u, mu, v, mv, idx) ==
    FSum([i \in idx |-> FMul(FSub(u[i], mu), FSub(v[i], mv))], idx)

\* preprocessing.scale: zero mean and unit (population) variance; a
\* constant column is centred only
scale(v) ==
    LET idx == 1..Len(v)
        m == MeanOver(v, idx)
        var == FDiv(CrossSum(v, m, v, m, idx), F(Len(v)))
        std == IF var = F(0) THEN F(1) ELSE FSqrt(var)
    IN  [i \in idx |-> FDiv(FSub(v[i], m), std)]

RECURSIVE Fact(_)
Fact(n) == IF n <= 1 THEN 1 ELSE n * Fact(n - 1)

RemoveAt(s, i) == SubSeq(s, 1, i - 1) \o SubSeq(s, i + 1, Len(s))

RECURSIVE NthPerm(_, _)
\* the k-th (from 0) arrangement of items, in lexicographic order
NthPerm(items, k) ==
    IF Len(items) = 0 THEN << >>
    ELSE LET f == Fact(Len(items) - 1)
             i == (k \div f) + 1
         IN  <<items[i]>> \o NthPerm(RemoveAt(items, i), k % f)

\* the samples 1..n in order: np.arange(n)
Arange(n) == [i \in 1..n |-> i]

\* the k-th draw (from 0) of a permutation of n samples from RandomState(0):
\* a generator with a fixed seed yields a fixed sequence; the model
\* takes the arrangements in a fixed enumeration
SeededDraw(n, k) == NthPerm(Arange(n), (5 * k + 3) % Fact(n))

\* KFold(n, n_folds): the test samples of fold f are a slice of idxs; the
\* first n % n_folds folds hold one sample more
KFoldTest(idxs, n_folds, f) ==
    LET n == Len(idxs)
        start == (f - 1) * (n \div n_folds) + (IF f - 1 < n % n_folds THEN f - 1 ELSE n % n_folds)
        size == (n \div n_folds) + (IF f <= n % n_folds THEN 1 ELSE 0)
    IN  {idxs[p] : p \in (start + 1)..(start + size)}

\* KFold: the test sets of the folds, idxs being np.arange(n) or, with
\* shuffle, what the generator made of it
KFold(idxs, n_folds) == [f \in 1..n_folds |-> KFoldTest(idxs, n_folds, f)]

\* the iterations of ShuffleSplit
ShuffleIters == 100

\* ceil(test_size*n) with test_size = 1.0/n_fold
NTest(n, n_fold) == (n + n_fold - 1) \div n_fold

\* ShuffleSplit(n, n_iter = 100, test_size, random_state = 0): iteration k
\* tests the first n_test samples of the k-th seeded permutation
ShuffleSplit(n, n_fold) ==
    [k \in 1..ShuffleIters |->
        {SeededDraw(n, k - 1)[p] : p \in 1..NTest(n, n_fold)}]

\* LinearRegression().fit on the samples train, then predict: least squares
\* with intercept; a constant regressor gets slope 0
FitPredict(X, y, train) ==
    LET mx == MeanOver(X, train)
        my == MeanOver(y, train)
        sxx == CrossSum(X, mx, X, mx, train)
        slope == IF sxx = F(0) THEN F(0) ELSE FDiv(CrossSum(X, mx, y, my, train), sxx)
    IN  [i \in 1..Len(X) |-> FAdd(my, FMul(slope, FSub(X[i], mx)))]

\* the scorer on the samples test: r2_score gives 1 - num/den, and 1 or 0
\* when den is 0; 'mean_squared_error' gives the negated mean of squares
Scorer(score_type, y, pred, test) ==
    LET num == FSum([i \in test |-> FMul(FSub(y[i], pred[i]), FSub(y[i], pred[i]))], test)
        my == MeanOver(y, test)
        den == CrossSum(y, my, y, my, test)
    IN  IF score_type = "r2"
        THEN IF den = F(0) THEN (IF num = F(0) THEN F(1) ELSE F(0))
             ELSE FSub(F(1), FDiv(num, den))
        ELSE FNeg(FDiv(num, F(Cardinality(test))))

RECURSIVE FSumRange(_, _, _)
\* f[lo] + ... + f[hi]
FSumRange(f, lo, hi) ==
    IF lo > hi THEN F(0)
    ELSE IF lo = hi THEN f[lo]
    ELSE LET mid == (lo + hi) \div 2
         IN  FAdd(FSumRange(f, lo, mid), FSumRange(f, mid + 1, hi))

\* _permutation_test_score: the mean over the splits of the test score of
\* the estimator fitted on the other samples; splits with one test set
\* have one score
CvScore(X, y, cv, score_type) ==
    LET all == 1..Len(X)
        scoreOf == [test \in {cv[f] : f \in 1..Len(cv)} |->
                       Scorer(score_type, y, FitPredict(X, y, all \ test), test)]
    IN  FDiv(FSumRange([f \in 1..Len(cv) |-> scoreOf[cv[f]]], 1, Len(cv)),
             F(Len(cv)))

\* y in the order of a permutation
Shuffled(y, perm) == [i \in 1..Len(y) |-> y[perm[i]]]

\* cross_validation.permutation_test_score(estimator, X, y, scoring, cv,
\* n_permutations): random_state is left at its default 0
permutation_test_score(X, y, score_type, cv, n_perm) ==
    LET score == CvScore(X, y, cv, score_type)
        permutation_scores ==
            [k \in 1..n_perm |->
                CvScore(X, Shuffled(y, SeededDraw(Len(y), k - 1)), cv, score_type)]
        hits == Cardinality({k \in 1..n_perm : ~FLt(permutation_scores[k], score)})
    IN  [raised |-> "no",
         fits |-> Len(cv) * (1 + n_perm),
         score |-> score,
         permutation_scores |-> permutation_scores,
         pvalues |-> Rat(hits + 1, n_perm + 1)]

\* permutation_cross_validation; shuffled is what the process-wide numpy
\* generator, which KFold uses when it gets no random_state, makes of
\* np.arange(n).  With another cvmeth no branch binds cvmethod and line 455
\* raises UnboundLocalError when it reads it.
permutation_cross_validation(X, y, n_fold, isshuffle, cvmeth, score_type, n_perm, shuffled) ==
    IF cvmeth = "kfold"
    THEN permutation_test_score(scale(X), scale(y), score_type,
             KFold(IF isshuffle THEN shuffled ELSE Arange(Len(y)), n_fold), n_perm)
    ELSE IF cvmeth = "shufflesplit"
    THEN permutation_test_score(scale(X), scale(y), score_type,
             ShuffleSplit(Len(y), n_fold), n_perm)
    ELSE [raised |-> "UnboundLocalError", fits |-> 0, score |-> NaN,
          permutation_scores |-> << >>, pvalues |-> NaN]

\* lin_betafit, tools.py:379-424, as far as the estimator and the tail are
\* concerned: estimator.fit runs at line 408, the tail is looked at from
\* line 416 on, and another tail raises Exception at line 423
lin_betafit(tail) ==
    IF tail \in {"both", "single"}
    THEN [raised |-> "no", fits |-> 1]
    ELSE [raised |-> "Exception", fits |-> 1]

-----------------------------------------------------------------------------
(* removeoutlier, tools.py:207-227, with the identity of its arrays: the   *)
(* heap maps an object to its contents.                                    *)

\* the object residue_data names at the return: line 207 binds it to the
\* copy, line 209 (meth is None) binds it to data again
ResidueObject(meth, data, copied) == IF meth = "none" THEN data ELSE copied

\* the heap after removeoutlier(data, meth, thr): copy.copy(data) allocates
\* copied, and the branches write their NaN into residue_data only
HeapAfterRemoveOutlier(heap, data, copied, meth, thr) ==
    LET r == removeoutlier(heap[data], meth, thr)
        allocated == [o \in DOMAIN heap \cup {copied} |->
                         IF o = copied THEN heap[data] ELSE heap[o]]
    IN  IF r.raised THEN allocated
        ELSE [allocated EXCEPT ![ResidueObject(meth, data, copied)] = r.residue_data]

-----------------------------------------------------------------------------
(* The callers' arrays. *)

\* feature values a subject's hemisphere can hold
FeatureValues == {NaN, F(-1), F(0), F(1)}

\* rows of a caller-supplied weight matrix
WeightRows == {<<F(1), F(1)>>, <<F(1), F(0)>>, <<F(0), F(2)>>}

HemiMeths == {"single", "both", "mean"}

\* values of a vector handed to removeoutlier
OutlierValues == {NaN, F(0), F(1), F(2)}

\* threshold pairs thr = [thr[0], thr[1]]
ThrSet == {<<F(-1), F(1)>>, <<F(0), F(1)>>, <<F(0), F(0)>>}

\* meth arguments: None, the three methods, and an unknown one
OutlierMeths == {"none", "abs", "iqr", "std", "mad"}

\* entries of a matrix handed to listwise_clean
CleanValues == {NaN, F(0), F(1)}

\* column counts of a matrix handed to listwise_clean
ColCounts == {1, 2}

\* labels of the ROIs of a 3-D mask
RoiLabels == {1, 2}

\* intensities of the target volume inside the ROIs
IntensityValues == {F(-1), F(0), F(1)}

\* voxel sizes handed to vox2MNI and get_coordinate
SizeSet == {<<F(2), F(2), F(2)>>, <<F(1), F(2), F(3)>>}

\* extraction modes: the two methods and an unknown one
ExtractMethods == {"peak", "center", "median"}

\* the para argument of template_overlap: the three modes and an unknown one
OverlapParas == {"percent", "amount", "dice", "jaccard"}

\* dtypes of the volumes handed to caleta2
EtaDtypes == {"float64", "int64", "uint8"}

\* entries of a volume of a dtype
EtaValues(dtype) ==
    IF dtype = "float64" THEN {F(0), Rat(1, 2), F(1)}
    ELSE IF dtype = "int64" THEN {0, 1, 2}
    ELSE {0, 1, 200}

\* the samples of X and y
Samples == 1..4

\* X and y: vectors over the samples whose variance has a root among the
\* model's floats
SampleVectors ==
    {v \in [Samples -> {F(0), F(1)}] :
        v[1] = F(0) /\
        LET m == MeanOver(v, Samples)
            var == FDiv(CrossSum(v, m, v, m, Samples), F(Len(v)))
        IN  /\ \E k \in 0..var[1] : k * k = var[1]
            /\ \E k \in 0..var[2] : k * k = var[2]}

FoldCounts == {2, 3}

\* cvmeth: the two methods and an unknown one
CvMeths == {"kfold", "shufflesplit", "loo"}

ScoreTypes == {"r2", "mean_squared_error"}

PermCounts == {1, 2}

\* tail of lin_betafit: the two tails and an unknown one
Tails == {"both", "single", "left"}

\* what an unseeded generator can make of np.arange(n)
Shuffles(n) == {NthPerm(Arange(n), k) : k \in 0..(Fact(n) - 1)}

\* labels of a volume's voxels: 0 is background
VoxelLabels == 0..MaxLabel

\* label arguments of caldice: the labels 1..MaxLabel in any selection and order
LabelArgs ==
    {l \in UNION {[1..n -> 1..MaxLabel] : n \in 1..MaxLabel} :
        \A i, j \in 1..Len(l) : i # j => l[i] # l[j]}

-----------------------------------------------------------------------------
(* Initial states: one group of variables holds a caller's arrays, the    *)
(* others are idle.                                                        *)

IdleMerge ==
    /\ hm_left = << >>
    /\ hm_right = << >>
    /\ hm_weight = None
    /\ hm_meth = "idle"
    /\ hm_merged = [raised |-> FALSE, merge_region |-> << >>]

IdleOutlier ==
    /\ ro_orig = << >>
    /\ ro_data = << >>
    /\ ro_meth = "idle"
    /\ ro_thr = <<F(0), F(0)>>
    /\ ro_removed = 0
    /\ ro_residue = << >>

IdleClean ==
    /\ lc_data = << >>
    /\ lc_clean = << >>
    /\ lc_done = FALSE

IdleDice ==
    /\ dc_data1 = << >>
    /\ dc_data2 = << >>
    /\ dc_label = << >>
    /\ dc_dice = << >>
    /\ dc_op = "idle"

IdleCoord ==
    /\ cd_atlas = << >>
    /\ cd_mask = << >>
    /\ cd_op = "idle"
    /\ cd_meth = "idle"
    /\ cd_vox = <<0, 0, 0>>
    /\ cd_size = <<0, 0, 0>>
    /\ cd_coord = << >>
    /\ cd_dist = << >>

IdleFirst == IdleMerge /\ IdleOutlier /\ IdleClean /\ IdleDice

IdleOverlap ==
    /\ ov_self = << >>
    /\ ov_template = << >>
    /\ ov_para = "idle"
    /\ ov_result = << >>

IdleEta ==
    /\ et_dtype = "idle"
    /\ et_data1 = << >>
    /\ et_data2 = << >>
    /\ et_mask = << >>
    /\ et_op = "idle"
    /\ et_eta = NaN

IdlePerm ==
    /\ pc_X = << >>
    /\ pc_y = << >>
    /\ pc_n_fold = 0
    /\ pc_isshuffle = FALSE
    /\ pc_cvmeth = "idle"
    /\ pc_score_type = "idle"
    /\ pc_n_perm = 0
    /\ pc_calls = << >>
    /\ pc_tail = "idle"
    /\ pc_beta = [raised |-> "idle", fits |-> 0]

IdleAlias ==
    /\ al_heap = << >>
    /\ al_data = 0
    /\ al_orig = << >>
    /\ al_residue = 0
    /\ al_meth = "idle"
    /\ al_written = FALSE

IdleLater == IdleCoord /\ IdleOverlap /\ IdleEta /\ IdlePerm /\ IdleAlias

-----------------------------------------------------------------------------
(* SpecMerge: a caller holding left and right feature vectors of equal     *)
(* length calls hemi_merge on them, as dataprocess does once per region.   *)

InitMerge ==
    /\ \E n \in 1..MaxSubj :
          /\ hm_left \in [1..n -> FeatureValues]
          /\ hm_right \in [1..n -> FeatureValues]
    /\ hm_weight = None
    /\ hm_meth = "idle"
    /\ hm_merged = [raised |-> FALSE, merge_region |-> << >>]
    /\ IdleOutlier /\ IdleClean /\ IdleDice /\ IdleLater

\* merge_region = hemi_merge(left, right, meth) with weight left out
CallHemiMergeDefault ==
    \E meth \in HemiMeths :
        /\ hm_meth = "idle"
        /\ hm_meth' = meth
        /\ hm_weight' = None
        /\ hm_merged' = hemi_merge(hm_left, hm_right, meth, None)
        /\ UNCHANGED <<hm_left, hm_right, roVars, lcVars, dcVars, laterVars>>

\* merge_region = hemi_merge(left, right, meth, weight)
CallHemiMergeWeighted ==
    \E meth \in HemiMeths, weight \in [1..Len(hm_left) -> WeightRows] :
        /\ hm_meth = "idle"
        /\ hm_meth' = meth
        /\ hm_weight' = weight
        /\ hm_merged' = hemi_merge(hm_left, hm_right, meth, weight)
        /\ UNCHANGED <<hm_left, hm_right, roVars, lcVars, dcVars, laterVars>>

NextMerge == CallHemiMergeDefault \/ CallHemiMergeWeighted

SpecMerge == InitMerge /\ [][NextMerge]_vars

-----------------------------------------------------------------------------
(* Claims about hemi_merge. *)

Subjects == 1..Len(hm_left)

Present(x) == ~isnan(x)

\* the result a claim expects of 'single' with default weights
SingleExpected(l, r) ==
    IF Present(l) /\ Present(r) THEN FDiv(FAdd(l, r), F(2))
    ELSE IF Present(l) THEN l
    ELSE IF Present(r) THEN r
    ELSE NaN

\* C1: with default weights, 'single' returns for every subject the mean of
\* left and right when both are present, the present value when one is, and
\* NaN when both are missing; for every present value, a merged 0 included.
C1_SingleDefaultMean ==
    (hm_meth = "single" /\ hm_weight = None) =>
        /\ ~hm_merged.raised
        /\ Len(hm_merged.merge_region) = Len(hm_left)
        /\ \A s \in Subjects :
              hm_merged.merge_region[s] = SingleExpected(hm_left[s], hm_right[s])

\* C2: with default weights, 'both' returns a vector of the inputs' length
\* whose entry is NaN iff at least one side of the subject is missing.
C2_BothNanIffMissing ==
    (hm_meth = "both" /\ hm_weight = None) =>
        /\ ~hm_merged.raised
        /\ Len(hm_merged.merge_region) = Len(hm_left)
        /\ \A s \in Subjects :
              isnan(hm_merged.merge_region[s])
                  <=> (isnan(hm_left[s]) \/ isnan(hm_right[s]))

\* C3: for a caller-supplied weight matrix, 'both' keeps the merged value
\* (left*w0 + right*w1)/(w0 + w1) only when w0 + w1 >= 2 and returns NaN
\* (never an infinity or another number) when the total weight is below 2.
C3_BothBelowTwoIsNan ==
    (hm_meth = "both" /\ hm_weight # None) =>
        \A s \in Subjects :
            LET w == hm_weight[s]
                tw == FAdd(w[1], w[2])
                m == hm_merged.merge_region[s]
            IN  /\ FLt(tw, F(2)) => isnan(m)
                /\ ~isnan(m) =>
                      /\ FGe(tw, F(2))
                      /\ m = FDiv(FAdd(FMul(hm_left[s], w[1]),
                                       FMul(hm_right[s], w[2])), tw)

\* weight with its two columns swapped (None stays None)
SwapColumns(weight) == [s \in 1..Len(weight) |-> <<weight[s][2], weight[s][1]>>]

\* C4: hemi_merge(left, right, 'single', W) equals, subject by subject (NaN
\* matching NaN), hemi_merge(right, left, 'single', W with columns swapped),
\* for every explicit W and for default weights.
C4_SingleSwapInvariant ==
    hm_meth = "single" =>
        hemi_merge(hm_right, hm_left, "single", SwapColumns(hm_weight)) = hm_merged

\* a 'single' merge with unequal explicit weights on two unequal present
\* sides, whose result is a number
C4_Witness ==
    /\ hm_meth = "single"
    /\ hm_weight # None
    /\ \E s \in Subjects :
          /\ hm_weight[s][1] # hm_weight[s][2]
          /\ Present(hm_left[s]) /\ Present(hm_right[s])
          /\ hm_left[s] # hm_right[s]
          /\ IsFinite(hm_merged.merge_region[s])

-----------------------------------------------------------------------------
(* SpecDice: a caller holding two labelled volumes of one shape calls      *)
(* caldice with a label list, or EvaluateMap.dice_evaluate.                *)

InitDice ==
    /\ \E n \in 1..MaxVox :
          /\ dc_data1 \in [1..n -> VoxelLabels]
          /\ dc_data2 \in [1..n -> VoxelLabels]
    /\ dc_label = << >>
    /\ dc_dice = << >>
    /\ dc_op = "idle"
    /\ IdleMerge /\ IdleOutlier /\ IdleClean /\ IdleLater

\* dice = caldice(data1, data2, label)
CallCaldice ==
    \E label \in LabelArgs :
        /\ dc_op = "idle"
        /\ dc_op' = "caldice"
        /\ dc_label' = label
        /\ dc_dice' = caldice(dc_data1, dc_data2, label)
        /\ UNCHANGED <<dc_data1, dc_data2, hmVars, roVars, lcVars, laterVars>>

\* dice = EvaluateMap().dice_evaluate(data1, data2), on 3-D or 4-D arrays
CallDiceEvaluate ==
    \E ndim \in {3, 4} :
        LET r == dice_evaluate(dc_data1, dc_data2, ndim)
        IN  /\ dc_op = "idle"
            /\ dc_op' = IF r.raised THEN "dice_evaluate_raised" ELSE "dice_evaluate"
            /\ dc_label' = << >>
            /\ dc_dice' = r.dice
            /\ UNCHANGED <<dc_data1, dc_data2, hmVars, roVars, lcVars, laterVars>>

NextDice == CallCaldice \/ CallDiceEvaluate

SpecDice == InitDice /\ [][NextDice]_vars

-----------------------------------------------------------------------------
(* Claims about caldice. *)

\* voxels of a volume holding a value
VoxelsOf(data, value) == {v \in 1..Len(data) : data[v] = value}

\* 2*|A = value and B = value| / (|A = value| + |B = value|), NaN when the
\* value occurs in neither volume
DiceExpected(A, B, value) ==
    IF VoxelsOf(A, value) = {} /\ VoxelsOf(B, value) = {} THEN NaN
    ELSE Rat(2 * Cardinality(VoxelsOf(A, value) \cap VoxelsOf(B, value)),
             Cardinality(VoxelsOf(A, value)) + Cardinality(VoxelsOf(B, value)))

\* C5: for every label set L (not only 1..k), dice(A, B, L) holds at
\* position i the Dice coefficient of the label L[i], and NaN exactly when
\* L[i] occurs in neither volume.
C5_DicePerLabelValue ==
    dc_op = "caldice" =>
        /\ Len(dc_dice) = Len(dc_label)
        /\ \A i \in 1..Len(dc_label) :
              dc_dice[i] = DiceExpected(dc_data1, dc_data2, dc_label[i])

\* C6: dice(A, A, L) is 1 at the position of every label of L that occurs
\* in A.
C6_DiceSelfIsOne ==
    (dc_op = "caldice" /\ dc_data1 = dc_data2) =>
        \A i \in 1..Len(dc_label) :
            VoxelsOf(dc_data1, dc_label[i]) # {} => dc_dice[i] = F(1)

-----------------------------------------------------------------------------
(* SpecOutlier: a caller applies removeoutlier to a vector and then to     *)
(* each result in turn.  ro_orig is the first vector, ro_data the input of *)
(* the last call, ro_residue and ro_removed what it returned.  A call that *)
(* raises returns nothing: the caller keeps the vector it had.             *)

InitOutlier ==
    /\ \E n \in 1..MaxLen : ro_orig \in [1..n -> OutlierValues]
    /\ ro_data = ro_orig
    /\ ro_residue = ro_orig
    /\ ro_meth = "idle"
    /\ ro_thr = <<F(0), F(0)>>
    /\ ro_removed = 0
    /\ IdleMerge /\ IdleClean /\ IdleDice /\ IdleLater

\* n_removed, residue_data = removeoutlier(residue_data, meth, thr)
CallRemoveOutlier ==
    \E meth \in OutlierMeths, thr \in ThrSet :
        LET r == removeoutlier(ro_residue, meth, thr)
        IN  /\ ~r.raised
            /\ ro_data' = ro_residue
            /\ ro_meth' = meth
            /\ ro_thr' = thr
            /\ ro_removed' = r.n_removed
            /\ ro_residue' = r.residue_data
            /\ UNCHANGED <<ro_orig, hmVars, lcVars, dcVars, laterVars>>

\* removeoutlier(residue_data, meth, thr) raises
CallRemoveOutlierRaises ==
    \E meth \in OutlierMeths, thr \in ThrSet :
        /\ removeoutlier(ro_residue, meth, thr).raised
        /\ ro_data' = ro_residue
        /\ ro_meth' = "raised"
        /\ ro_thr' = thr
        /\ ro_removed' = 0
        /\ UNCHANGED <<ro_orig, ro_residue, hmVars, lcVars, dcVars, laterVars>>

NextOutlier == CallRemoveOutlier \/ CallRemoveOutlierRaises

SpecOutlier == InitOutlier /\ [][NextOutlier]_vars

-----------------------------------------------------------------------------
(* Claims about removeoutlier. *)

Entries == 1..Len(ro_data)

\* the last call turned entry i from a number into NaN
Removed(i) == ~isnan(ro_data[i]) /\ isnan(ro_residue[i])

\* the 25th and 75th percentiles of the last call's input
Q1 == percentile(ro_data, 25)

Q3 == percentile(ro_data, 75)

LowerBound == FAdd(Q1, FMul(ro_thr[1], FSub(Q3, Q1)))

UpperBound == FAdd(Q3, FMul(ro_thr[2], FSub(Q3, Q1)))

Wider(t, u) == ~FLt(u[1], t[1]) /\ ~FLt(t[2], u[2])

\* C8: for a fixed input, the removed count of 'iqr' does not decrease as
\* the threshold interval narrows: with thresholds at least as wide as the
\* last call's, the same input loses at most as many values.
C8_IqrMonotone ==
    ro_meth = "iqr" =>
        \A t \in ThrSet :
            Wider(t, ro_thr) =>
                removeoutlier(ro_data, "iqr", t).n_removed <= ro_removed

\* an 'iqr' call that removed strictly more than a wider interval removes
\* from the same input
C8_Witness ==
    /\ ro_meth = "iqr"
    /\ \E t \in ThrSet :
          /\ Wider(t, ro_thr)
          /\ removeoutlier(ro_data, "iqr", t).n_removed < ro_removed

\* C9: after any sequence of removeoutlier calls applied one after another
\* (any method, any thresholds) the vector keeps its length, every entry is
\* its original value or NaN, no NaN entry is a number again, and the
\* call's removed count is the number of entries it turned into NaN.
C9_ShapeAndCount ==
    /\ Len(ro_residue) = Len(ro_orig)
    /\ \A i \in 1..Len(ro_orig) :
          /\ ro_residue[i] = ro_orig[i] \/ isnan(ro_residue[i])
          /\ isnan(ro_data[i]) => isnan(ro_residue[i])
    /\ ro_meth \in {"none", "abs", "iqr", "std"} =>
          ro_removed = Cardinality({i \in Entries : Removed(i)})

\* a call that removed values from a vector an earlier call had already
\* removed values from
C9_Witness ==
    /\ ro_meth \in {"abs", "iqr", "std"}
    /\ ro_data # ro_orig
    /\ NumIdx(ro_orig) = 1..Len(ro_orig)
    /\ ro_removed > 0

-----------------------------------------------------------------------------
(* SpecClean: a caller holding a subjects x regions matrix calls           *)
(* listwise_clean on it.                                                   *)

InitClean ==
    /\ \E n \in 0..MaxRows, ncol \in ColCounts :
          lc_data \in [1..n -> [1..ncol -> CleanValues]]
    /\ lc_clean = << >>
    /\ lc_done = FALSE
    /\ IdleMerge /\ IdleOutlier /\ IdleDice /\ IdleLater

\* clean_data = listwise_clean(data)
CallListwiseClean ==
    /\ ~lc_done
    /\ lc_done' = TRUE
    /\ lc_clean' = listwise_clean(lc_data)
    /\ UNCHANGED <<lc_data, hmVars, roVars, dcVars, laterVars>>

NextClean == CallListwiseClean

SpecClean == InitClean /\ [][NextClean]_vars

-----------------------------------------------------------------------------
(* Claims about listwise_clean. *)

\* the rows of the input that hold no NaN
NanFreeRows == {r \in 1..Len(lc_data) : \A c \in 1..Len(lc_data[r]) : ~isnan(lc_data[r][c])}

\* C10: listwise_clean returns exactly the rows of the input that hold no
\* NaN, in their original order: the output holds no NaN, has at most as
\* many rows as the input, and misses no NaN-free row.
C10_ListwiseExact ==
    lc_done =>
        /\ \A k \in 1..Len(lc_clean) : \A c \in 1..Len(lc_clean[k]) : ~isnan(lc_clean[k][c])
        /\ Len(lc_clean) <= Len(lc_data)
        /\ Len(lc_clean) = Cardinality(NanFreeRows)
        /\ \A r \in NanFreeRows :
              lc_clean[Cardinality({q \in NanFreeRows : q <= r})] = lc_data[r]

\* a cleaning that dropped a row holding a number beside a NaN and kept two
\* different rows
C10_Witness ==
    /\ lc_done
    /\ Len(lc_clean) = 2
    /\ lc_clean[1] # lc_clean[2]
    /\ \E r \in 1..Len(lc_data) :
          /\ r \notin NanFreeRows
          /\ RowCount(lc_data[r]) > 0

-----------------------------------------------------------------------------
(* SpecCoord: a caller holding a target volume and an ROI mask of one      *)
(* shape maps one ROI voxel with vox2MNI, or calls get_coordinate, or      *)
(* PositionRelationship(mask).roidistance(target).  Outside the ROIs the   *)
(* target volume holds 1; those values never reach a result.               *)

InitCoord ==
    /\ \E roi \in {r \in SUBSET Voxels : Cardinality(r) <= MaxRoiVox} :
       \E lab \in [roi -> RoiLabels], inten \in [roi -> IntensityValues] :
          /\ cd_mask = [v \in Voxels |-> IF v \in roi THEN lab[v] ELSE 0]
          /\ cd_atlas = [v \in Voxels |-> IF v \in roi THEN inten[v] ELSE F(1)]
    /\ cd_op = "idle"
    /\ cd_meth = "idle"
    /\ cd_vox = <<0, 0, 0>>
    /\ cd_size = <<0, 0, 0>>
    /\ cd_coord = << >>
    /\ cd_dist = << >>
    /\ IdleFirst
    /\ IdleOverlap
    /\ IdleEta
    /\ IdlePerm
    /\ IdleAlias

\* MNI = vox2MNI(vox, size) for a voxel of an ROI
CallVox2MNI ==
    \E vox \in {v \in Voxels : cd_mask[v] # 0}, size \in SizeSet :
        /\ cd_op = "idle"
        /\ cd_op' = "vox2MNI"
        /\ cd_vox' = vox
        /\ cd_size' = size
        /\ cd_coord' = <<vox2MNI(<<F(vox[1]), F(vox[2]), F(vox[3])>>, size)>>
        /\ UNCHANGED <<cd_atlas, cd_mask, cd_meth, cd_dist, firstVars, ovVars, etVars, pcVars, alVars>>

\* coordinate = get_coordinate(atlas, mask, size, method)
CallGetCoordinate ==
    \E method \in ExtractMethods, size \in SizeSet :
        LET r == get_coordinate_default(cd_atlas, cd_mask, size, method)
        IN  /\ cd_op = "idle"
            /\ cd_op' = IF r.raised THEN "raised" ELSE "get_coordinate"
            /\ cd_meth' = method
            /\ cd_size' = size
            /\ cd_coord' = r.coordinate
            /\ UNCHANGED <<cd_atlas, cd_mask, cd_vox, cd_dist, firstVars, ovVars, etVars, pcVars, alVars>>

\* dist_array = PositionRelationship(mask).roidistance(atlas, extloc)
CallRoiDistance ==
    \E extloc \in ExtractMethods :
        LET r == roidistance(cd_mask, cd_atlas, extloc)
        IN  /\ cd_op = "idle"
            /\ cd_op' = IF r.raised THEN "raised" ELSE "roidistance"
            /\ cd_meth' = extloc
            /\ cd_size' = DefaultSize
            /\ cd_coord' = r.peakcoord
            /\ cd_dist' = r.dist_array
            /\ UNCHANGED <<cd_atlas, cd_mask, cd_vox, firstVars, ovVars, etVars, pcVars, alVars>>

NextCoord == CallVox2MNI \/ CallGetCoordinate \/ CallRoiDistance

SpecCoord == InitCoord /\ [][NextCoord]_vars

-----------------------------------------------------------------------------
(* Claims about vox2MNI, get_coordinate and roidistance. *)

\* the voxels of an ROI
RoiOf(label) == {v \in Voxels : cd_mask[v] = label}

\* a voxel's index triple as floats
AsFloats(v) == <<F(v[1]), F(v[2]), F(v[3])>>

\* the fixed affine, written out
Affine(vox, scaling) ==
    << FMul(FSub(F(45), vox[1]), scaling[1]),
       FMul(FSub(vox[2], F(63)), scaling[2]),
       FMul(FSub(vox[3], F(36)), scaling[3]) >>

\* the squared Euclidean distance of two points
SqDist(p, q) ==
    FAdd(FAdd(FMul(FSub(p[1], q[1]), FSub(p[1], q[1])),
              FMul(FSub(p[2], q[2]), FSub(p[2], q[2]))),
         FMul(FSub(p[3], q[3]), FSub(p[3], q[3])))

\* the mask holds the two single-voxel ROIs 1 and 2, both with nonzero
\* target intensity
TwoSingleVoxelRois ==
    /\ Cardinality(RoiOf(1)) = 1
    /\ Cardinality(RoiOf(2)) = 1
    /\ \A v \in Voxels : cd_mask[v] # 0 => cd_atlas[v] # F(0)

\* C11: roidistance with extloc = center, metric = euclidean on a mask of two
\* disjoint single-voxel ROIs returns, for that pair, the Euclidean distance
\* of the two voxels' own index triples mapped by the affine.
C11_CenterOfSingleVoxel ==
    (cd_op = "roidistance" /\ cd_meth = "center" /\ TwoSingleVoxelRois) =>
        LET v1 == CHOOSE v \in Voxels : cd_mask[v] = 1
            v2 == CHOOSE v \in Voxels : cd_mask[v] = 2
        IN  cd_dist[1][2] = SqDist(Affine(AsFloats(v1), DefaultSize),
                                   Affine(AsFloats(v2), DefaultSize))

\* C12: with extloc = peak, the coordinate of every ROI present in the mask
\* is the affine image of a voxel of that ROI whose target intensity is the
\* maximum over the ROI, also when the ROI's intensities are all negative
\* or all zero.
C12_PeakInsideRoi ==
    (cd_op \in {"roidistance", "get_coordinate"} /\ cd_meth = "peak") =>
        \A label \in RoiLabels :
            RoiOf(label) # {} =>
                /\ label <= Len(cd_coord)
                /\ \E v \in RoiOf(label) :
                      /\ \A u \in RoiOf(label) : ~FLt(cd_atlas[v], cd_atlas[u])
                      /\ cd_coord[label] = Affine(AsFloats(v), cd_size)

\* C13: vox2MNI returns ((45 - vox[0])*scale[0], (vox[1] - 63)*scale[1],
\* (vox[2] - 36)*scale[2]) for every voxel and scale, and get_coordinate and
\* roidistance apply this mapping to the representative coordinate of each
\* ROI that has one.
C13_FixedAffine ==
    /\ cd_op = "vox2MNI" =>
          cd_coord[1] = Affine(AsFloats(cd_vox), cd_size)
    /\ cd_op \in {"roidistance", "get_coordinate"} =>
          \A i \in 1..Len(cd_coord) :
              LET roisignal == RoiSignal(cd_atlas, cd_mask, i)
              IN  AnySignal(roisignal) =>
                      cd_coord[i] = Affine(calfunc(cd_meth, roisignal), cd_size)

\* a roidistance call that measured two ROIs at different mapped coordinates
C13_Witness ==
    /\ cd_op = "roidistance"
    /\ Len(cd_coord) = 2
    /\ IsFinite(cd_dist[1][2])
    /\ cd_dist[1][2] # F(0)

-----------------------------------------------------------------------------
(* SpecOverlap: a caller builds PositionRelationship(roimask) and calls    *)
(* template_overlap(template, para) with a template of the same shape.     *)

InitOverlap ==
    /\ \E len \in 1..MaxVox :
       \E roimask \in [1..len -> VoxelLabels], template \in [1..len -> VoxelLabels] :
          /\ ov_self = PositionRelationshipInit(roimask)
          /\ ov_template = template
    /\ ov_para = "idle"
    /\ ov_result = << >>
    /\ IdleFirst
    /\ IdleCoord
    /\ IdleEta
    /\ IdlePerm
    /\ IdleAlias

\* overlaparray, uni_tempextlbl = self.template_overlap(template, para)
CallTemplateOverlap ==
    \E para \in OverlapParas :
        /\ ov_para = "idle"
        /\ ov_para' = para
        /\ ov_result' = template_overlap(ov_self, ov_template, para)
        /\ UNCHANGED <<ov_self, ov_template, firstVars, cdVars, etVars, pcVars, alVars>>

NextOverlap == CallTemplateOverlap

SpecOverlap == InitOverlap /\ [][NextOverlap]_vars

-----------------------------------------------------------------------------
(* Claims about template_overlap. *)

\* the labels of a flattened volume, background 0 apart
LabelsOf(volume) == {volume[v] : v \in 1..Len(volume)} \ {0}

\* voxels labelled t in the template and r in the ROI mask
Intersection(t, r) ==
    Cardinality({v \in 1..Len(ov_template) :
                    ov_template[v] = t /\ ov_self.roimask[v] = r})

\* the result is a matrix with a row per template label and a column per
\* ROI label
OverlapShape ==
    /\ Len(ov_result.overlaparray) = Cardinality(LabelsOf(ov_template))
    /\ \A i \in 1..Len(ov_result.overlaparray) :
          Len(ov_result.overlaparray[i]) = Cardinality(LabelsOf(ov_self.roimask))

\* C14: with para = percent, template_overlap returns a matrix with one row
\* per template label and one column per ROI label whose entry [t, r] is the
\* number of voxels labelled t in the template and r in the ROI mask divided
\* by the number of voxels labelled t in the template.
C14_PercentOfTemplate ==
    ov_para = "percent" =>
        /\ ov_result.raised = "no"
        /\ OverlapShape
        /\ \A i \in 1..Len(ov_result.overlaparray) :
           \A j \in 1..Len(ov_result.overlaparray[i]) :
              LET t == SortedLabel(LabelsOf(ov_template), i)
                  r == SortedLabel(LabelsOf(ov_self.roimask), j)
              IN  ov_result.overlaparray[i][j] =
                      Rat(Intersection(t, r), CountEq(ov_template, t))

\* C15: for para in {percent, amount, dice} and every same-shape template
\* and ROI mask, template_overlap completes without raising and returns the
\* whole matrix, every entry a number or NaN.
C15_OverlapNeverRaises ==
    ov_para \in {"percent", "amount", "dice"} =>
        /\ ov_result.raised = "no"
        /\ OverlapShape
        /\ \A i \in 1..Len(ov_result.overlaparray) :
           \A j \in 1..Len(ov_result.overlaparray[i]) :
              \/ isnan(ov_result.overlaparray[i][j])
              \/ IsFinite(ov_result.overlaparray[i][j])

-----------------------------------------------------------------------------
(* SpecEta: a caller holds two volumes of one shape and dtype and a mask,  *)
(* and calls caleta2(data1, data2, mask).                                  *)

InitEta ==
    /\ \E dtype \in EtaDtypes, len \in 1..MaxVox :
       \E data1 \in [1..len -> EtaValues(dtype)],
          data2 \in [1..len -> EtaValues(dtype)],
          mask \in [1..len -> {0, 1}] :
          /\ et_dtype = dtype
          /\ et_data1 = data1
          /\ et_data2 = data2
          /\ et_mask = mask
    /\ et_op = "idle"
    /\ et_eta = NaN
    /\ IdleFirst
    /\ IdleCoord
    /\ IdleOverlap
    /\ IdlePerm
    /\ IdleAlias

\* eta = caleta2(data1, data2, mask)
CallCaleta2 ==
    LET r == caleta2(et_dtype, et_data1, et_data2, et_mask)
    IN  /\ et_op = "idle"
        /\ et_op' = IF r.raised THEN "raised" ELSE "caleta2"
        /\ et_eta' = r.eta
        /\ UNCHANGED <<et_dtype, et_data1, et_data2, et_mask,
                       firstVars, cdVars, ovVars, pcVars, alVars>>

NextEta == CallCaleta2

SpecEta == InitEta /\ [][NextEta]_vars

-----------------------------------------------------------------------------
(* Claims about caleta2. *)

\* the voxels the mask selects
Masked == {i \in 1..Len(et_mask) : et_mask[i] # 0}

\* the masked values of both volumes, as floats
Pooled ==
    [k \in 1..(2 * Len(et_mask)) |->
        IF k <= Len(et_mask) THEN AsFloat(et_dtype, et_data1[k])
        ELSE AsFloat(et_dtype, et_data2[k - Len(et_mask)])]

PooledIdx == Masked \cup {Len(et_mask) + i : i \in Masked}

GrandMean == FDiv(FSum(Pooled, PooledIdx), F(Cardinality(PooledIdx)))

\* the total sum of squared deviations from the grand mean
TotalSquares ==
    FSum([k \in PooledIdx |-> FMul(FSub(Pooled[k], GrandMean),
                                   FSub(Pooled[k], GrandMean))], PooledIdx)

\* C16: for two same-shape volumes and a mask selecting at least one voxel,
\* with a nonzero total sum of squared deviations from the grand mean, eta2
\* is at most 1 and equals 1 exactly when the volumes agree on every masked
\* voxel, for integer-valued and for real-valued volumes.
C16_EtaOneIffEqual ==
    (et_op = "caleta2" /\ Masked # {} /\ TotalSquares # F(0)) =>
        /\ ~FLt(F(1), et_eta)
        /\ ~isnan(et_eta)
        /\ (et_eta = F(1)) <=> (\A i \in Masked : et_data1[i] = et_data2[i])

-----------------------------------------------------------------------------
(* SpecPerm: a caller holds X, y and the arguments, calls                  *)
(* permutation_cross_validation twice with them, and then lin_betafit.     *)

InitPerm ==
    /\ pc_X \in SampleVectors
    /\ pc_y \in SampleVectors
    /\ pc_n_fold \in FoldCounts
    /\ pc_isshuffle \in BOOLEAN
    /\ pc_cvmeth \in CvMeths
    /\ pc_score_type \in ScoreTypes
    /\ pc_n_perm \in PermCounts
    /\ pc_calls = << >>
    /\ pc_tail = "idle"
    /\ pc_beta = [raised |-> "idle", fits |-> 0]
    /\ IdleFirst
    /\ IdleCoord
    /\ IdleOverlap
    /\ IdleEta
    /\ IdleAlias

\* score, permutation_scores, pvalues = permutation_cross_validation(...)
CallPermutationCrossValidation ==
    \E shuffled \in (IF pc_cvmeth = "kfold" /\ pc_isshuffle
                     THEN Shuffles(Len(pc_y)) ELSE {Arange(Len(pc_y))}) :
        /\ Len(pc_calls) < 2
        /\ pc_calls' = Append(pc_calls,
               permutation_cross_validation(pc_X, pc_y, pc_n_fold, pc_isshuffle,
                   pc_cvmeth, pc_score_type, pc_n_perm, shuffled))
        /\ UNCHANGED <<pc_X, pc_y, pc_n_fold, pc_isshuffle, pc_cvmeth,
                       pc_score_type, pc_n_perm, pc_tail, pc_beta,
                       firstVars, cdVars, ovVars, etVars, alVars>>

\* lin_betafit(estimator, X, y, c, tail)
CallLinBetafit ==
    \E tail \in Tails :
        /\ Len(pc_calls) = 2
        /\ pc_tail = "idle"
        /\ pc_tail' = tail
        /\ pc_beta' = lin_betafit(tail)
        /\ UNCHANGED <<pc_X, pc_y, pc_n_fold, pc_isshuffle, pc_cvmeth,
                       pc_score_type, pc_n_perm, pc_calls,
                       firstVars, cdVars, ovVars, etVars, alVars>>

NextPerm == CallPermutationCrossValidation \/ CallLinBetafit

SpecPerm == InitPerm /\ [][NextPerm]_vars

-----------------------------------------------------------------------------
(* Claims about permutation_cross_validation. *)

\* C17: two calls of permutation_cross_validation with equal estimator, X,
\* y, n_fold, isshuffle, cvmeth, score_type and n_perm return the same
\* score, the same permutation scores and the same p-value, for shufflesplit
\* and for kfold with isshuffle off and on.
C17_Deterministic ==
    (pc_cvmeth \in {"kfold", "shufflesplit"} /\ Len(pc_calls) = 2) =>
        /\ pc_calls[1].score = pc_calls[2].score
        /\ pc_calls[1].permutation_scores = pc_calls[2].permutation_scores
        /\ pc_calls[1].pvalues = pc_calls[2].pvalues

\* C18: a cvmeth other than kfold and shufflesplit is rejected with the
\* raised Exception of an unknown method, before any estimator fit and
\* without a score, as lin_betafit rejects an unknown tail.
C18_UnknownMethodRejected ==
    /\ pc_cvmeth \notin {"kfold", "shufflesplit"} =>
          \A c \in 1..Len(pc_calls) :
              /\ pc_calls[c].raised = "Exception"
              /\ pc_calls[c].fits = 0
    /\ pc_tail \notin {"idle", "both", "single"} =>
          /\ pc_beta.raised = "Exception"
          /\ pc_beta.fits = 0

-----------------------------------------------------------------------------
(* SpecAlias: a caller holds the array object 1, calls removeoutlier on it *)
(* and then writes one entry of the array it got back.                     *)

\* the value the caller writes
Written == F(9)

InitAlias ==
    /\ \E n \in 1..MaxLen : al_orig \in [1..n -> OutlierValues]
    /\ al_heap = [o \in {1} |-> al_orig]
    /\ al_data = 1
    /\ al_residue = 0
    /\ al_meth = "idle"
    /\ al_written = FALSE
    /\ IdleFirst
    /\ IdleCoord
    /\ IdleOverlap
    /\ IdleEta
    /\ IdlePerm

\* n_removed, residue_data = removeoutlier(data, meth, thr)
CallRemoveOutlierObject ==
    \E meth \in OutlierMeths, thr \in ThrSet :
        /\ al_meth = "idle"
        /\ al_meth' = IF removeoutlier(al_heap[al_data], meth, thr).raised
                      THEN "raised" ELSE meth
        /\ al_heap' = HeapAfterRemoveOutlier(al_heap, al_data, 2, meth, thr)
        /\ al_residue' = IF removeoutlier(al_heap[al_data], meth, thr).raised
                         THEN 0 ELSE ResidueObject(meth, al_data, 2)
        /\ UNCHANGED <<al_data, al_orig, al_written, firstVars, cdVars, ovVars,
                       etVars, pcVars>>

\* residue_data[i] = value, by the caller
WriteResidue ==
    \E i \in 1..Len(al_orig) :
        /\ al_residue # 0
        /\ ~al_written
        /\ al_written' = TRUE
        /\ al_heap' = [al_heap EXCEPT ![al_residue][i] = Written]
        /\ UNCHANGED <<al_data, al_orig, al_residue, al_meth, firstVars, cdVars,
                       ovVars, etVars, pcVars>>

NextAlias == CallRemoveOutlierObject \/ WriteResidue

SpecAlias == InitAlias /\ [][NextAlias]_vars

-----------------------------------------------------------------------------
(* Claim about the arrays of removeoutlier. *)

\* C19: for every method, None included, the array removeoutlier returns is
\* not the caller's input object and the input's contents are unchanged
\* after the call, also after a later write to the result.
C19_FreshResult ==
    al_residue # 0 =>
        /\ al_residue # al_data
        /\ al_heap[al_data] = al_orig

====
